---- MODULE Spec2Model ----
(***************************************************************************)
(* Model of the tag-assistant backend: the AIAgent service                 *)
(* (src/backend/services/ai-agent.js, first class of the file) with its    *)
(* conversation map, the asynchronous processMessage turn, and the pure    *)
(* extraction helpers; the PlatformMatcher service (platform-matcher.js,   *)
(* in src/unnamed/part_002) with its catalog and alias map; the chat and   *)
(* ticket handlers of src/backend/server.js with the in-memory store       *)
(* (inmemory-storage.js, in src/unnamed/part_000).                         *)
(*                                                                         *)
(* Texts are TLA+ strings (TLC applies Len, SubSeq and \o to strings).     *)
(* Two characters of the source are outside ASCII and are written with a   *)
(* stand-in character that occurs nowhere else in the model's texts:       *)
(*   U+2713 (check mark)  is written  #                                    *)
(*   U+00E9 (e acute)     is written  ^                                    *)
(* A nullable JavaScript value is a sequence of at most one element:       *)
(* NULL is <<>> and the value v is <<v>>.                                  *)
(***************************************************************************)
EXTENDS Integers, Sequences, FiniteSets, TLC

VARIABLES
    model,          \* this.model is set (GEMINI_API_KEY present)
    conversations,  \* this.conversations: conversation id -> array reference, 0 when absent
    arrays,         \* the heap of history arrays: reference -> sequence of {role, content}
    calls,          \* the processMessage invocations: call id -> its frame
    sent,           \* per history array, the prompt sent for each turn stored in it
    lastResult,     \* per conversation id, the latest successful result since its last clear
    cleared,        \* the clearConversation calls made so far, in order
    aiIn,           \* extraction harness: the assistant text
    userIn,         \* extraction harness: the user text
    xOut,           \* extraction harness: the record extractData returned
    xpc,            \* extraction harness: position
    platforms,      \* PlatformMatcher.platforms: the catalog
    aliasMap,       \* PlatformMatcher.aliasMap: normalized key -> platform
    matcherPc,      \* position of PlatformMatcher.initialize: new, reading, ready
    matched,        \* matcher harness: the last matchPlatform or suggestPlatforms call
    historyKind,    \* the class behind historyService: memory (InMemoryStorage) or notion (HistoryService)
    requests,       \* the HTTP requests handled so far: request id -> its frame
    storageHistory, \* InMemoryStorage.history: the audit entries
    requestLog,     \* HistoryService.requestLog: the entries pushed, with their key
    tickets,        \* InMemoryStorage.tickets: the stored tickets
    serving         \* whether requests reach the handlers: exported (VERCEL), starting, listening

vars == <<model, conversations, arrays, calls, sent, lastResult, cleared,
          aiIn, userIn, xOut, xpc,
          platforms, aliasMap, matcherPc, matched,
          historyKind, requests, storageHistory, requestLog, tickets, serving>>

matcherVars == <<platforms, aliasMap, matcherPc, matched>>

serverVars == <<historyKind, requests, storageHistory, requestLog, tickets, serving>>

agentVars == <<model, conversations, arrays, calls, sent, lastResult, cleared>>

harnessVars == <<aiIn, userIn, xOut, xpc>>

----------------------------------------------------------------------------
(* JavaScript string primitives used by the service *)

CHECKMARK == "#"

NULL == <<>>

Some(v) == <<v>>

Min(S) == CHOOSE x \in S : \A y \in S : x <= y

\* String.prototype.includes
includes(s, sub) ==
    \E i \in 1..(Len(s) - Len(sub) + 1) : SubSeq(s, i, i + Len(sub) - 1) = sub

UPPERS == "ABCDEFGHIJKLMNOPQRSTUVWXYZ"

LOWERS == "abcdefghijklmnopqrstuvwxyz"

charAt(s, i) == SubSeq(s, i, i)

indexIn(c, alphabet) ==
    LET hits == {i \in 1..Len(alphabet) : charAt(alphabet, i) = c}
    IN  IF hits = {} THEN 0 ELSE Min(hits)

lowerChar(c) ==
    LET i == indexIn(c, UPPERS) IN IF i = 0 THEN c ELSE charAt(LOWERS, i)

upperChar(c) ==
    LET i == indexIn(c, LOWERS) IN IF i = 0 THEN c ELSE charAt(UPPERS, i)

RECURSIVE toLowerCase(_)
\* String.prototype.toLowerCase
toLowerCase(s) ==
    IF Len(s) = 0 THEN ""
    ELSE lowerChar(charAt(s, 1)) \o toLowerCase(SubSeq(s, 2, Len(s)))

RECURSIVE split(_)
\* String.prototype.split(' ')
split(s) ==
    LET sp == {i \in 1..Len(s) : charAt(s, i) = " "}
    IN  IF sp = {} THEN <<s>>
        ELSE LET i == Min(sp)
             IN  <<SubSeq(s, 1, i - 1)>> \o split(SubSeq(s, i + 1, Len(s)))

RECURSIVE join(_)
\* Array.prototype.join(' ')
join(ws) ==
    IF Len(ws) = 0 THEN ""
    ELSE IF Len(ws) = 1 THEN ws[1]
    ELSE ws[1] \o " " \o join(Tail(ws))

\* w => w.charAt(0).toUpperCase() + w.slice(1)
capitalize(w) ==
    IF Len(w) = 0 THEN "" ELSE upperChar(charAt(w, 1)) \o SubSeq(w, 2, Len(w))

\* brand.split(' ').map(capitalize).join(' ')
capitalizeWords(brand) ==
    LET ws == split(brand) IN join([i \in 1..Len(ws) |-> capitalize(ws[i])])

----------------------------------------------------------------------------
(* AIAgent.extractData *)

EmptyData == [account |-> NULL, platform |-> NULL, tagType |-> NULL, priority |-> NULL]

Fields == {"account", "platform", "tagType", "priority"}

\* the confirmation phrases looked for in the lowercased assistant text
hasConfirmation(aiText) ==
    \/ includes(aiText, "confirm")
    \/ includes(aiText, "let me confirm")
    \/ includes(aiText, "i've extracted")
    \/ includes(aiText, "i have extracted")
    \/ includes(aiText, "summarize")
    \/ includes(aiText, "summary")
    \/ includes(aiText, CHECKMARK)
    \/ includes(aiText, "ready to create")

knownBrands ==
    <<"nike", "sap", "cofidis", "sncf", "sncf connect", "l'or^al", "loreal",
      "renault", "carrefour", "adidas", "puma">>

stopWords == {"I", "A", "The", "For", "On", "To"}

\* the first known brand contained in the combined text, capitalized
brandOf(combinedText) ==
    LET hits == {i \in 1..Len(knownBrands) : includes(combinedText, knownBrands[i])}
    IN  IF hits = {} THEN NULL ELSE Some(capitalizeWords(knownBrands[Min(hits)]))

\* the first capitalized word of the raw user message that is no stop word
capitalizedWordOf(userMessage) ==
    LET words == split(userMessage)
        hits  == {i \in 1..Len(words) :
                    /\ Len(words[i]) > 2
                    /\ charAt(words[i], 1) = upperChar(charAt(words[i], 1))
                    /\ words[i] \notin stopWords}
    IN  IF hits = {} THEN NULL ELSE Some(words[Min(hits)])

extractAccount(aiText, combinedText, userMessage) ==
    IF includes(aiText, "client:") \/ includes(aiText, "account:")
    THEN LET b == brandOf(combinedText)
         IN  IF b # NULL THEN b ELSE capitalizedWordOf(userMessage)
    ELSE NULL

platformNames ==
    <<"Google DV360", "Google Ad Manager", "The Trade Desk", "Xandr", "Amazon",
      "Criteo", "Taboola", "Outbrain">>

platformAliases ==
    <<{"dv360", "google dv360", "display & video", "display and video"},
      {"gam", "google ad manager", "dfp", "doubleclick"},
      {"trade desk", "ttd", "the trade desk"},
      {"xandr", "appnexus", "microsoft advertising"},
      {"amazon", "amazon dsp", "amazon ads"},
      {"criteo"},
      {"taboola"},
      {"outbrain"}>>

\* extractPlatform without the test for its marker
extractPlatformUngated(aiText, combinedText) ==
    LET hits == {i \in 1..Len(platformNames) :
                   \E alias \in platformAliases[i] : includes(combinedText, alias)}
    IN  IF hits = {} THEN NULL ELSE Some(platformNames[Min(hits)])

extractPlatform(aiText, combinedText) ==
    IF includes(aiText, "platform:")
    THEN LET hits == {i \in 1..Len(platformNames) :
                        \E alias \in platformAliases[i] : includes(combinedText, alias)}
         IN  IF hits = {} THEN NULL ELSE Some(platformNames[Min(hits)])
    ELSE NULL

extractTagType(aiText, combinedText) ==
    IF includes(aiText, "tag type:") \/ includes(aiText, "type:")
    THEN IF includes(combinedText, "tracker") \/ includes(combinedText, "tracking")
         THEN Some("Tracker")
         ELSE IF \/ includes(combinedText, "video wrapper")
                 \/ includes(combinedText, "wrapper")
                 \/ includes(combinedText, "video tag")
         THEN Some("Video Wrapper")
         ELSE NULL
    ELSE NULL

extractPriority(aiText, combinedText) ==
    IF includes(aiText, "priority:")
    THEN IF \/ includes(combinedText, "high")
            \/ includes(combinedText, "urgent")
            \/ includes(combinedText, "asap")
         THEN Some("High")
         ELSE IF \/ includes(combinedText, "low")
                 \/ includes(combinedText, "when possible")
                 \/ includes(combinedText, "no rush")
         THEN Some("Low")
         ELSE IF includes(combinedText, "medium") \/ includes(combinedText, "normal")
         THEN Some("Medium")
         ELSE NULL
    ELSE NULL

\* extractData with the confirmation test made on the combined text
extractDataGateOnCombined(aiResponse, userMessage) ==
    LET aiText       == toLowerCase(aiResponse)
        userText     == toLowerCase(userMessage)
        combinedText == userText \o " " \o aiText
    IN  IF ~hasConfirmation(combinedText) THEN EmptyData
        ELSE [account  |-> extractAccount(aiText, combinedText, userMessage),
              platform |-> extractPlatform(aiText, combinedText),
              tagType  |-> extractTagType(aiText, combinedText),
              priority |-> extractPriority(aiText, combinedText)]

extractData(aiResponse, userMessage) ==
    LET aiText       == toLowerCase(aiResponse)
        userText     == toLowerCase(userMessage)
        combinedText == userText \o " " \o aiText
    IN  IF ~hasConfirmation(aiText) THEN EmptyData
        ELSE [account  |-> extractAccount(aiText, combinedText, userMessage),
              platform |-> extractPlatform(aiText, combinedText),
              tagType  |-> extractTagType(aiText, combinedText),
              priority |-> extractPriority(aiText, combinedText)]

----------------------------------------------------------------------------
(* The extraction harness: extractData applied to bounded inputs *)

MaxAiFrags == 2

AiFragments ==
    {"Which platform do you need? ",
     "Client: Nike ",
     "Account: ",
     "Platform: Google DV360 ",
     "Platform: The Trade Desk ",
     "Tag Type: Tracker ",
     "Type: wrapper ",
     "Priority: High ",
     "# ",
     "Let me CONFIRM. ",
     "Summary: ",
     "I've extracted the following: ",
     "Ready to create? "}

RECURSIVE TextsOf(_, _)
\* the texts made of at most n fragments
TextsOf(frags, n) ==
    IF n = 0 THEN {""}
    ELSE LET shorter == TextsOf(frags, n - 1)
         IN  shorter \cup {t \o f : t \in shorter, f \in frags}

AiTexts == TextsOf(AiFragments, MaxAiFrags)

UserTexts ==
    {"",
     "urgent Nike tracker for DV360",
     "yes",
     "please confirm the summary: Acme wants a video tag on TTD asap",
     "platform should be The Trade Desk",
     "I need a low priority pixel, tracking for Zalando on Xandr #"}

\* no matchPlatform or suggestPlatforms call made yet
NoMatch == [op |-> "none"]

\* the matcher after its constructor
MatcherNew ==
    /\ platforms = << >>
    /\ aliasMap = << >>
    /\ matcherPc = "new"
    /\ matched = NoMatch

\* the store before any request
StoreEmpty ==
    /\ requests = << >>
    /\ storageHistory = << >>
    /\ requestLog = << >>
    /\ tickets = << >>

\* the server as server.js wires it (historyService = storageService) before
\* any request
ServerIdle ==
    /\ historyKind = "memory"
    /\ StoreEmpty
    /\ serving = "starting"

AgentIdle ==
    /\ model = FALSE
    /\ conversations = << >>
    /\ arrays = << >>
    /\ calls = << >>
    /\ sent = << >>
    /\ lastResult = << >>
    /\ cleared = << >>

InitExtract ==
    /\ AgentIdle
    /\ MatcherNew
    /\ ServerIdle
    /\ aiIn \in AiTexts
    /\ userIn \in UserTexts
    /\ xOut = EmptyData
    /\ xpc = "input"

Extract ==
    /\ xpc = "input"
    /\ xOut' = extractData(aiIn, userIn)
    /\ xpc' = "extracted"
    /\ UNCHANGED <<aiIn, userIn>>
    /\ UNCHANGED agentVars
    /\ UNCHANGED <<matcherVars, serverVars>>

NextExtract == Extract

SpecExtract == InitExtract /\ [][NextExtract]_vars

----------------------------------------------------------------------------
(* AIAgent: prompt building, completion test, actions, suggestions *)

\* the instruction text of buildSystemPrompt, abridged to its first and last
\* sentences: a constant that no claim about the turn logic reads
buildSystemPrompt ==
    "You are an AI assistant helping users create tag requests for advertising platforms. "
    \o "REMEMBER: Extract first, show summary, ask for confirmation!"

UserEntry(text) == [role |-> "user", content |-> text]

AssistantEntry(text) == [role |-> "assistant", content |-> text]

RECURSIVE historyLines(_)
\* the loop of buildPromptWithHistory: one line per stored message
historyLines(history) ==
    IF Len(history) = 0 THEN ""
    ELSE (IF Head(history).role = "user" THEN "User" ELSE "Assistant")
         \o ": " \o Head(history).content \o "\n" \o historyLines(Tail(history))

buildPromptWithHistory(systemPrompt, history, newMessage) ==
    systemPrompt \o "\n\n"
    \o (IF Len(history) > 0
        THEN "Previous conversation:\n" \o historyLines(history) \o "\n"
        ELSE "")
    \o "User: " \o newMessage \o "\n\nAssistant: "

\* JavaScript truthiness of a nullable string
truthy(v) == v # NULL /\ v[1] # ""

\* isDataComplete with || in place of &&
isDataCompleteAnyField(data) ==
    \/ truthy(data.account)
    \/ truthy(data.platform)
    \/ truthy(data.tagType)
    \/ truthy(data.priority)

isDataComplete(data) ==
    /\ truthy(data.account)
    /\ truthy(data.platform)
    /\ truthy(data.tagType)
    /\ truthy(data.priority)

\* determineActions offering the ticket creation unconditionally
determineActionsAlwaysCreate(data) == <<"create", "reset">>

determineActions(data) ==
    (IF isDataComplete(data) THEN <<"create">> ELSE << >>) \o <<"reset">>

generateSuggestions(data) ==
    (IF ~truthy(data.platform)
     THEN <<"Google DV360", "The Trade Desk", "Xandr", "Google Ad Manager">> ELSE << >>)
    \o (IF ~truthy(data.tagType) THEN <<"Tracker", "Video Wrapper">> ELSE << >>)
    \o (IF ~truthy(data.priority) THEN <<"Low", "Medium", "High">> ELSE << >>)

----------------------------------------------------------------------------
(* AIAgent: the conversation store and the processMessage turn *)

MaxCalls == 3

MaxResets == 1

MaxShortCalls == 2

\* conversation ids that clients send
ClientIds == {"c1"}

\* the id generated when a call carries no conversation id: unique per call
GeneratedId(k) == "conv_" \o ToString(k)

ConvIds == ClientIds \cup {GeneratedId(k) : k \in 1..MaxCalls}

UserMessages == {"urgent Nike tracker for DV360", "yes"}

\* texts the dialogue adapter may answer with
AiResponses ==
    {"Client: Nike # Platform: Google DV360 # Tag Type: Tracker # Priority: High #",
     "Got it! Platform: The Trade Desk #",
     "Perfect! Let me create this ticket for you."}

\* error.message of a rejected generateContent
UpstreamErrors == {"429 quota exceeded"}

\* extractData over the texts of the model, tabulated once
extractTable == [a \in AiResponses, m \in UserMessages |-> extractData(a, m)]

Pending == [success |-> "pending"]

NoResult == [success |-> "none"]

Failure(text) == [success |-> FALSE, error |-> text]

\* the object processMessage returns on success (its message field, the
\* cleaned assistant text, is left out)
Success(convId, extractedData) ==
    [success        |-> TRUE,
     conversationId |-> convId,
     extractedData  |-> extractedData,
     actions        |-> determineActions(extractedData),
     suggestions    |-> generateSuggestions(extractedData),
     complete       |-> isDataComplete(extractedData)]

\* AIAgent.getConversation
getConversation(convId) ==
    IF conversations[convId] = 0 THEN << >> ELSE arrays[conversations[convId]]

\* the ids a client can name: its own and those returned to it
KnownIds ==
    ClientIds \cup {calls[k].result.conversationId :
                      k \in {j \in 1..Len(calls) :
                               calls[j].pc = "returned" /\ calls[j].result.success}}

ConversationIdArgs == {NULL} \cup {Some(id) : id \in KnownIds}

Init ==
    /\ model \in BOOLEAN
    /\ conversations = [c \in ConvIds |-> 0]
    /\ arrays = << >>
    /\ calls = << >>
    /\ sent = << >>
    /\ lastResult = [c \in ConvIds |-> NoResult]
    /\ cleared = << >>
    /\ aiIn = ""
    /\ userIn = ""
    /\ xOut = EmptyData
    /\ xpc = "off"
    /\ MatcherNew
    /\ ServerIdle

\* processMessage without a configured model: returns the failure at once
ProcessUnconfigured(message, conversationId) ==
    /\ ~model
    /\ calls' = Append(calls,
                  [pc |-> "returned", convId |-> conversationId, message |-> message,
                   history |-> 0, fullPrompt |-> "", concurrent |-> {},
                   aiResponse |-> NULL,
                   result |-> Failure("AI service not configured - GEMINI_API_KEY missing")])
    /\ arrays' = Append(arrays, << >>)
    /\ sent' = Append(sent, << >>)
    /\ UNCHANGED <<model, conversations, lastResult, cleared>>
    /\ UNCHANGED harnessVars

\* processMessage taking one shared array (the first of the heap) as the
\* history of every conversation that is not stored yet
ProcessBeginSharedDefault(message, conversationId) ==
    /\ model
    /\ LET k       == Len(calls) + 1
           convId  == IF conversationId = NULL THEN GeneratedId(k) ELSE conversationId[1]
           found   == conversations[convId] # 0
           ref     == IF found THEN conversations[convId] ELSE 1
           history == IF k = 1 THEN << >> ELSE arrays[ref]
       IN  /\ calls' = Append(calls,
                         [pc |-> "awaiting", convId |-> Some(convId), message |-> message,
                          history |-> ref,
                          fullPrompt |-> buildPromptWithHistory(buildSystemPrompt, history, message),
                          concurrent |-> {j \in 1..Len(calls) : calls[j].pc = "awaiting"},
                          aiResponse |-> NULL,
                          result |-> Pending])
           /\ arrays' = Append(arrays, << >>)
           /\ sent' = Append(sent, << >>)
    /\ UNCHANGED <<model, conversations, lastResult, cleared>>
    /\ UNCHANGED harnessVars

\* processMessage up to the await of model.generateContent
ProcessBegin(message, conversationId) ==
    /\ model
    /\ LET k       == Len(calls) + 1
           convId  == IF conversationId = NULL THEN GeneratedId(k) ELSE conversationId[1]
           found   == conversations[convId] # 0
           ref     == IF found THEN conversations[convId] ELSE k
           history == IF found THEN arrays[ref] ELSE << >>
       IN  /\ calls' = Append(calls,
                         [pc |-> "awaiting", convId |-> Some(convId), message |-> message,
                          history |-> ref,
                          fullPrompt |-> buildPromptWithHistory(buildSystemPrompt, history, message),
                          concurrent |-> {j \in 1..Len(calls) : calls[j].pc = "awaiting"},
                          aiResponse |-> NULL,
                          result |-> Pending])
           /\ arrays' = Append(arrays, << >>)
           /\ sent' = Append(sent, << >>)
    /\ UNCHANGED <<model, conversations, lastResult, cleared>>
    /\ UNCHANGED harnessVars

\* generateContent resolved with aiResponse: the rest of the try block
ProcessResolve(k, aiResponse) ==
    /\ k \in 1..Len(calls)
    /\ calls[k].pc = "awaiting"
    /\ LET f             == calls[k]
           convId        == f.convId[1]
           extractedData == extractTable[aiResponse, f.message]
           result        == Success(convId, extractedData)
       IN  /\ arrays' = [arrays EXCEPT ![f.history] =
                            @ \o <<UserEntry(f.message), AssistantEntry(aiResponse)>>]
           /\ conversations' = [conversations EXCEPT ![convId] = f.history]
           /\ sent' = [sent EXCEPT ![f.history] = Append(@, f.fullPrompt)]
           /\ calls' = [calls EXCEPT ![k].pc = "returned",
                                     ![k].aiResponse = Some(aiResponse),
                                     ![k].result = result]
           /\ lastResult' = [lastResult EXCEPT ![convId] = result]
    /\ UNCHANGED <<model, cleared>>
    /\ UNCHANGED harnessVars

\* the catch block reached with the user message already pushed and stored, as
\* if the history were updated before the await
ProcessRejectAfterPush(k, errorMessage) ==
    /\ k \in 1..Len(calls)
    /\ calls[k].pc = "awaiting"
    /\ arrays' = [arrays EXCEPT ![calls[k].history] = Append(@, UserEntry(calls[k].message))]
    /\ conversations' = [conversations EXCEPT ![calls[k].convId[1]] = calls[k].history]
    /\ calls' = [calls EXCEPT
                   ![k].pc = "returned",
                   ![k].result = Failure(IF errorMessage # "" THEN errorMessage
                                         ELSE "Failed to process message")]
    /\ UNCHANGED <<model, sent, lastResult, cleared>>
    /\ UNCHANGED harnessVars

\* generateContent rejected (or response.text() threw): the catch block
ProcessReject(k, errorMessage) ==
    /\ k \in 1..Len(calls)
    /\ calls[k].pc = "awaiting"
    /\ calls' = [calls EXCEPT
                   ![k].pc = "returned",
                   ![k].result = Failure(IF errorMessage # "" THEN errorMessage
                                         ELSE "Failed to process message")]
    /\ UNCHANGED <<model, conversations, arrays, sent, lastResult, cleared>>
    /\ UNCHANGED harnessVars

\* clearConversation that leaves the map entry in place
clearConversationKeepsEntry(conversationId) ==
    /\ Len(cleared) < MaxResets
    /\ cleared' = Append(cleared, conversationId)
    /\ lastResult' = [lastResult EXCEPT ![conversationId] = NoResult]
    /\ UNCHANGED <<model, conversations, arrays, calls, sent>>
    /\ UNCHANGED harnessVars

\* AIAgent.clearConversation; lastResult keeps what the session returned since
\* it was last cleared
clearConversation(conversationId) ==
    /\ Len(cleared) < MaxResets
    /\ conversations' = [conversations EXCEPT ![conversationId] = 0]
    /\ cleared' = Append(cleared, conversationId)
    /\ lastResult' = [lastResult EXCEPT ![conversationId] = NoResult]
    /\ UNCHANGED <<model, arrays, calls, sent>>
    /\ UNCHANGED harnessVars

\* the operations of the agent, with at most n processMessage invocations
NextUpTo(n) ==
    \/ \E m \in UserMessages, c \in ConversationIdArgs :
          Len(calls) < n /\ ProcessUnconfigured(m, c) /\ UNCHANGED <<matcherVars, serverVars>>
    \/ \E m \in UserMessages, c \in ConversationIdArgs :
          Len(calls) < n /\ ProcessBegin(m, c) /\ UNCHANGED <<matcherVars, serverVars>>
    \/ \E k \in 1..Len(calls), a \in AiResponses :
          ProcessResolve(k, a) /\ UNCHANGED <<matcherVars, serverVars>>
    \/ \E k \in 1..Len(calls), e \in UpstreamErrors :
          ProcessReject(k, e) /\ UNCHANGED <<matcherVars, serverVars>>
    \/ \E c \in KnownIds :
          clearConversation(c) /\ UNCHANGED <<matcherVars, serverVars>>

Next == NextUpTo(MaxCalls)

Spec == Init /\ [][Next]_vars

\* the same agent with fewer invocations
NextShort == NextUpTo(MaxShortCalls)

SpecShort == Init /\ [][NextShort]_vars

----------------------------------------------------------------------------
(* PlatformMatcher: normalization, edit distance, similarity *)

ALNUM == "abcdefghijklmnopqrstuvwxyz0123456789"

RECURSIVE trimStart(_)
trimStart(s) ==
    IF Len(s) > 0 /\ charAt(s, 1) = " " THEN trimStart(SubSeq(s, 2, Len(s))) ELSE s

RECURSIVE trimEnd(_)
trimEnd(s) ==
    IF Len(s) > 0 /\ charAt(s, Len(s)) = " " THEN trimEnd(SubSeq(s, 1, Len(s) - 1)) ELSE s

\* String.prototype.trim
trim(s) == trimEnd(trimStart(s))

RECURSIVE removeNonAlnum(_)
\* replace(/[^a-z0-9]/g, '')
removeNonAlnum(s) ==
    IF Len(s) = 0 THEN ""
    ELSE (IF indexIn(charAt(s, 1), ALNUM) # 0 THEN charAt(s, 1) ELSE "")
         \o removeNonAlnum(SubSeq(s, 2, Len(s)))

\* normalizeString without the replace of the special characters
normalizeStringNoReplace(str) == trim(toLowerCase(str))

normalizeString(str) == removeNonAlnum(trim(toLowerCase(str)))

\* the minimum with the cell on the left costing one more
Min3CostlyLeft(a, b, c) ==
    IF a <= b + 1 /\ a <= c THEN a ELSE IF b + 1 <= c THEN b + 1 ELSE c

Min3(a, b, c) == Min({a, b, c})

RECURSIVE levRow(_, _, _, _)
\* row i of the matrix from row i - 1 (prev) and the cells of row i filled so
\* far (row); matrix[i][j] is row[j + 1], c is str2.charAt(i - 1)
levRow(prev, c, str1, row) ==
    LET j == Len(row)
    IN  IF j > Len(str1) THEN row
        ELSE levRow(prev, c, str1,
                    Append(row, IF c = charAt(str1, j)
                                THEN prev[j]
                                ELSE Min3(prev[j] + 1, row[j] + 1, prev[j + 1] + 1)))

RECURSIVE levRows(_, _, _, _)
\* the last row of the matrix, from row i - 1
levRows(str1, str2, i, prev) ==
    \* a row is never empty: the test has row i - 1 computed before row i starts
    IF i > Len(str2) \/ Len(prev) = 0 THEN prev
    ELSE levRows(str1, str2, i + 1, levRow(prev, charAt(str2, i), str1, <<i>>))

levenshteinDistance(str1, str2) ==
    levRows(str1, str2, 1, [j \in 1..(Len(str1) + 1) |-> j - 1])[Len(str1) + 1]

\* a similarity score is the fraction <<numerator, denominator>>; the scores of
\* the matcher have denominators far below the precision of a double, so the
\* comparisons of the fractions are the comparisons of the doubles
ScoreGT(a, b) == a[1] * b[2] > b[1] * a[2]

ScoreEQ(a, b) == a[1] * b[2] = b[1] * a[2]

ScoreMax(a, b) == IF ScoreGT(b, a) THEN b ELSE a

ZERO == <<0, 1>>

\* calculateSimilarity without the containment clause
calculateSimilarityNoContainment(str1, str2) ==
    LET longer == IF Len(str1) > Len(str2) THEN str1 ELSE str2
    IN  IF Len(longer) = 0 THEN <<1, 1>>
        ELSE <<Len(longer) - levenshteinDistance(str1, str2), Len(longer)>>

calculateSimilarity(str1, str2) ==
    LET longer  == IF Len(str1) > Len(str2) THEN str1 ELSE str2
        shorter == IF Len(str1) > Len(str2) THEN str2 ELSE str1
    IN  IF Len(longer) = 0 THEN <<1, 1>>
        ELSE IF includes(longer, shorter) THEN <<9, 10>>
        ELSE <<Len(longer) - levenshteinDistance(str1, str2), Len(longer)>>

----------------------------------------------------------------------------
(* PlatformMatcher: the catalog and the alias map *)

\* a platform of the catalog; a missing aliases array is the empty sequence and
\* a missing priority is 0 (both are read through a truthiness test)
Platform(id, name, aliases, active, priority) ==
    [id |-> id, name |-> name, aliases |-> aliases, active |-> active, priority |-> priority]

\* the literal list of loadDefaultPlatforms
DefaultPlatforms ==
    <<Platform("meta", "Meta", <<"Facebook", "Meta Ads", "FB", "Instagram Ads">>, TRUE, 1),
      Platform("google-dv360", "Google DV360",
               <<"DV360", "Google Display", "GDN", "Display & Video 360">>, TRUE, 2),
      Platform("trade-desk", "The Trade Desk", <<"TTD", "TradeDesk", "Trade Desk">>, TRUE, 3),
      Platform("xandr", "Xandr", <<"AppNexus", "Xandr Invest", "Xandr Monetize">>, TRUE, 4),
      Platform("amazon", "Amazon DSP", <<"Amazon", "Amazon Advertising", "AAP">>, TRUE, 5),
      Platform("tiktok", "TikTok Ads", <<"TikTok", "TikTok for Business">>, TRUE, 6),
      Platform("linkedin", "LinkedIn Ads", <<"LinkedIn", "LinkedIn Campaign Manager">>, TRUE, 7),
      Platform("snapchat", "Snapchat", <<"Snap", "Snapchat Ads">>, TRUE, 8),
      Platform("pinterest", "Pinterest", <<"Pinterest Ads">>, TRUE, 9),
      Platform("reddit", "Reddit", <<"Reddit Ads">>, TRUE, 10)>>

\* a platforms array of config/platforms.json: two platforms registering the
\* alias Amazon, one platform without aliases and priority, one inactive, one
\* with a placeholder alias that holds no letter or digit
ConfigPlatforms ==
    <<Platform("amazon-dsp", "Amazon DSP", <<"Amazon">>, TRUE, 2),
      Platform("amazon-ads", "Amazon Ads", <<"Amazon", "Sponsored Ads">>, TRUE, 1),
      Platform("google-ads", "Google Ads", << >>, TRUE, 0),
      Platform("yahoo", "Yahoo DSP", <<"Verizon Media">>, FALSE, 3),
      Platform("criteo", "Criteo", <<"-">>, TRUE, 4)>>

\* what initialize finds at config/platforms.json: a file that cannot be read,
\* a file that is no JSON, a JSON file without a platforms array (the filter
\* call throws), or a parsed file with its platforms array
ConfigSources ==
    {[kind |-> "unreadable", platforms |-> << >>],
     [kind |-> "unparsable", platforms |-> << >>],
     [kind |-> "noarray", platforms |-> << >>],
     [kind |-> "parsed", platforms |-> ConfigPlatforms],
     [kind |-> "parsed", platforms |-> SubSeq(ConfigPlatforms, 1, 3)],
     [kind |-> "parsed", platforms |-> << >>],
     [kind |-> "parsed", platforms |-> <<ConfigPlatforms[4]>>]}

\* the names and aliases of a platforms array
textsOf(ps) ==
    UNION {{ps[i].name} \cup {ps[i].aliases[j] : j \in 1..Len(ps[i].aliases)} :
             i \in 1..Len(ps)}

\* the strings given to matchPlatform and suggestPlatforms
MatcherInputs ==
    {"", "???", "DV360", "Amazon", "tik tok", "trad desk", "Xandy", "reddot", "snap",
     "ads", "google ads", "zzz"}

\* the strings the matcher normalizes: inputs, platform strings extracted by
\* the agent, names and aliases of the catalogs
MatcherTexts ==
    MatcherInputs
    \cup {platformNames[i] : i \in 1..Len(platformNames)}
    \cup textsOf(DefaultPlatforms)
    \cup textsOf(ConfigPlatforms)

\* normalizeString over the strings of the model, tabulated once
normalizeTable == [str \in MatcherTexts |-> normalizeString(str)]

NormalizedTexts == {normalizeTable[str] : str \in MatcherTexts}

\* calculateSimilarity over the normalized strings of the model, tabulated once
similarityTable == [x \in NormalizedTexts, y \in NormalizedTexts |-> calculateSimilarity(x, y)]

isActive(p) == p.active # FALSE

\* the set calls of buildAliasMap in order: <<key, platform>>, the name of a
\* platform before its aliases
RECURSIVE registrations(_)
registrations(ps) ==
    IF Len(ps) = 0 THEN << >>
    ELSE <<<<normalizeTable[Head(ps).name], Head(ps)>>>>
         \o [j \in 1..Len(Head(ps).aliases) |->
               <<normalizeTable[Head(ps).aliases[j]], Head(ps)>>]
         \o registrations(Tail(ps))

Max(S) == CHOOSE x \in S : \A y \in S : x >= y

\* the map in which a key keeps the platform that registered it first
buildAliasMapFirstWins(ps) ==
    LET regs == registrations(ps)
        keys == {regs[i][1] : i \in 1..Len(regs)}
    IN  [key \in keys |-> regs[Min({i \in 1..Len(regs) : regs[i][1] = key})][2]]

\* the map after aliasMap.clear() and the set calls: a later set replaces an
\* earlier one of the same key
buildAliasMap(ps) ==
    LET regs == registrations(ps)
        keys == {regs[i][1] : i \in 1..Len(regs)}
    IN  [key \in keys |-> regs[Max({i \in 1..Len(regs) : regs[i][1] = key})][2]]

----------------------------------------------------------------------------
(* PlatformMatcher: matchPlatform, fuzzyMatch, suggestPlatforms *)

RECURSIVE fuzzyLoop(_, _, _, _, _)
\* the two nested loops of fuzzyMatch over the names and aliases in order: a
\* score replaces the best one only when it is strictly greater
fuzzyLoop(normalized, regs, i, bestMatch, bestScore) ==
    IF i > Len(regs) THEN [bestMatch |-> bestMatch, bestScore |-> bestScore]
    ELSE LET score == similarityTable[normalized, regs[i][1]]
         IN  IF ScoreGT(score, bestScore)
             THEN fuzzyLoop(normalized, regs, i + 1, Some(regs[i][2]), score)
             ELSE fuzzyLoop(normalized, regs, i + 1, bestMatch, bestScore)

fuzzyMatch(input) ==
    LET r == fuzzyLoop(normalizeTable[input], registrations(platforms), 1, NULL, ZERO)
    IN  IF r.bestMatch # NULL
        THEN Some([platform |-> r.bestMatch[1], score |-> r.bestScore])
        ELSE NULL

\* a threshold of 0.9
MatchThresholdNineTenths == <<9, 10>>

\* the score above which a fuzzy match is returned
MatchThreshold == <<8, 10>>

\* the score above which a platform is suggested
SuggestThreshold == <<3, 10>>

\* matchPlatform returning the best fuzzy match whatever its score
matchPlatformNoThreshold(input) ==
    IF input = "" THEN NULL
    ELSE IF normalizeTable[input] \in DOMAIN aliasMap
    THEN Some(aliasMap[normalizeTable[input]])
    ELSE LET fm == fuzzyMatch(input)
         IN  IF fm # NULL THEN Some(fm[1].platform) ELSE NULL

\* matchPlatform trying the fuzzy match before the alias map
matchPlatformFuzzyFirst(input) ==
    IF input = "" THEN NULL
    ELSE LET fm == fuzzyMatch(input)
         IN  IF fm # NULL /\ ScoreGT(fm[1].score, MatchThreshold)
             THEN Some(fm[1].platform)
             ELSE IF normalizeTable[input] \in DOMAIN aliasMap
             THEN Some(aliasMap[normalizeTable[input]])
             ELSE NULL

matchPlatform(input) ==
    IF input = "" THEN NULL
    ELSE IF normalizeTable[input] \in DOMAIN aliasMap
    THEN Some(aliasMap[normalizeTable[input]])
    ELSE LET fm == fuzzyMatch(input)
         IN  IF fm # NULL /\ ScoreGT(fm[1].score, MatchThreshold)
             THEN Some(fm[1].platform)
             ELSE NULL

RECURSIVE bestAliasScore(_, _, _, _)
\* the forEach of suggestPlatforms over the aliases of one platform
bestAliasScore(normalized, aliases, j, best) ==
    IF j > Len(aliases) THEN best
    ELSE bestAliasScore(normalized, aliases, j + 1,
                        ScoreMax(best, similarityTable[normalized, normalizeTable[aliases[j]]]))

\* Math.max(mainScore, bestAliasScore) of one platform
bestScoreOf(normalized, platform) ==
    ScoreMax(similarityTable[normalized, normalizeTable[platform.name]],
             bestAliasScore(normalized, platform.aliases, 1, ZERO))

\* platform.priority || 999
rankOf(platform) == IF platform.priority = 0 THEN 999 ELSE platform.priority

\* the comparator of the sort is negative: a is placed before b
sortsBefore(a, b) ==
    IF ~ScoreEQ(b.score, a.score) THEN ScoreGT(a.score, b.score)
    ELSE rankOf(a.platform) < rankOf(b.platform)

RECURSIVE insertSorted(_, _)
\* x placed after the entries that do not sort after it (the sort is stable)
insertSorted(sorted, x) ==
    IF Len(sorted) = 0 THEN <<x>>
    ELSE IF sortsBefore(x, Head(sorted)) THEN <<x>> \o sorted
    ELSE <<Head(sorted)>> \o insertSorted(Tail(sorted), x)

RECURSIVE sortSuggestions(_, _, _)
\* Array.prototype.sort with the comparator of suggestPlatforms
sortSuggestions(entries, i, sorted) ==
    IF i > Len(entries) THEN sorted
    ELSE sortSuggestions(entries, i + 1, insertSorted(sorted, entries[i]))

isSuggested(s) == ScoreGT(s.score, SuggestThreshold)

\* suggestPlatforms without the slice to the limit
suggestPlatformsNoSlice(input, limit) ==
    LET normalized == normalizeTable[input]
        scored     == [i \in 1..Len(platforms) |->
                         [platform |-> platforms[i],
                          score    |-> bestScoreOf(normalized, platforms[i])]]
        sorted     == sortSuggestions(SelectSeq(scored, isSuggested), 1, << >>)
    IN  [i \in 1..Len(sorted) |->
           [id      |-> sorted[i].platform.id,
            name    |-> sorted[i].platform.name,
            score   |-> sorted[i].score,
            aliases |-> sorted[i].platform.aliases]]

suggestPlatforms(input, limit) ==
    LET normalized == normalizeTable[input]
        scored     == [i \in 1..Len(platforms) |->
                         [platform |-> platforms[i],
                          score    |-> bestScoreOf(normalized, platforms[i])]]
        sorted     == sortSuggestions(SelectSeq(scored, isSuggested), 1, << >>)
        sliced     == SubSeq(sorted, 1, IF limit < Len(sorted) THEN limit ELSE Len(sorted))
    IN  [i \in 1..Len(sliced) |->
           [id      |-> sliced[i].platform.id,
            name    |-> sliced[i].platform.name,
            score   |-> sliced[i].score,
            aliases |-> sliced[i].platform.aliases]]

\* the default value of the limit parameter of suggestPlatforms
DefaultLimit == 5

----------------------------------------------------------------------------
(* PlatformMatcher: loading the catalog *)

\* loadDefaultPlatforms
loadDefaultPlatforms ==
    /\ platforms' = DefaultPlatforms
    /\ aliasMap' = buildAliasMap(DefaultPlatforms)

\* initialize up to the await of fs.readFile
initializeBegin ==
    /\ matcherPc = "new"
    /\ matcherPc' = "reading"
    /\ UNCHANGED <<platforms, aliasMap, matched>>

\* initialize after fs.readFile settled on source: the rest of the try block,
\* or the catch block when the read or JSON.parse threw
initializeEnd(source) ==
    /\ matcherPc = "reading"
    /\ IF source.kind = "parsed"
       THEN /\ platforms' = SelectSeq(source.platforms, isActive)
            /\ aliasMap' = buildAliasMap(SelectSeq(source.platforms, isActive))
       ELSE loadDefaultPlatforms
    /\ matcherPc' = "ready"
    /\ UNCHANGED matched

\* updatePlatforms leaving the alias map as it was
updatePlatformsNoRebuild(newPlatforms) ==
    /\ platforms' = SelectSeq(newPlatforms, isActive)
    /\ UNCHANGED aliasMap

\* updatePlatforms: the catalog is replaced and the alias map rebuilt before
\* the await of fs.writeFile, whose outcome changes nothing in the matcher
updatePlatforms(newPlatforms) ==
    /\ platforms' = SelectSeq(newPlatforms, isActive)
    /\ aliasMap' = buildAliasMap(SelectSeq(newPlatforms, isActive))

----------------------------------------------------------------------------
(* The matcher harness: one matchPlatform or suggestPlatforms call on the
   catalog that initialize left *)

MaxLimit == 5

Limits == 0..MaxLimit

MatchPlatform(input) ==
    /\ matched = NoMatch
    /\ matched' = [op |-> "matchPlatform", input |-> input, limit |-> 0,
                   result |-> matchPlatform(input)]
    /\ UNCHANGED <<platforms, aliasMap, matcherPc>>

SuggestPlatforms(input, limit) ==
    /\ matched = NoMatch
    /\ matched' = [op |-> "suggestPlatforms", input |-> input, limit |-> limit,
                   result |-> suggestPlatforms(input, limit)]
    /\ UNCHANGED <<platforms, aliasMap, matcherPc>>

InitMatcher ==
    /\ AgentIdle
    /\ aiIn = ""
    /\ userIn = ""
    /\ xOut = EmptyData
    /\ xpc = "off"
    /\ MatcherNew
    /\ ServerIdle

NextMatcher ==
    \/ /\ matched = NoMatch
       /\ initializeBegin
       /\ UNCHANGED <<agentVars, harnessVars, serverVars>>
    \/ \E source \in ConfigSources :
          /\ matched = NoMatch
          /\ initializeEnd(source)
          /\ UNCHANGED <<agentVars, harnessVars, serverVars>>
    \/ \E input \in MatcherInputs :
          MatchPlatform(input) /\ UNCHANGED <<agentVars, harnessVars, serverVars>>
    \/ \E input \in MatcherInputs, limit \in Limits :
          SuggestPlatforms(input, limit) /\ UNCHANGED <<agentVars, harnessVars, serverVars>>

SpecMatcher == InitMatcher /\ [][NextMatcher]_vars

----------------------------------------------------------------------------
(* The catalog harness: initialize, loadDefaultPlatforms and updatePlatforms
   called in any order *)

MaxPayloadLen == 3

RECURSIVE PayloadsUpTo(_)
\* the arrays of up to n different platforms of ConfigPlatforms
PayloadsUpTo(n) ==
    IF n = 0 THEN {<< >>}
    ELSE LET shorter == PayloadsUpTo(n - 1)
         IN  shorter \cup {Append(ps, ConfigPlatforms[i]) :
                             ps \in {qs \in shorter : Len(qs) = n - 1},
                             i \in 1..Len(ConfigPlatforms)}

\* newPlatforms of updatePlatforms: no platform twice
Payloads ==
    {ps \in PayloadsUpTo(MaxPayloadLen) :
        \A i, j \in 1..Len(ps) : i # j => ps[i].id # ps[j].id}

LoadDefaultPlatforms ==
    /\ loadDefaultPlatforms
    /\ matched' = [op |-> "loadDefaultPlatforms"]
    /\ UNCHANGED matcherPc

UpdatePlatforms(newPlatforms) ==
    /\ updatePlatforms(newPlatforms)
    /\ matched' = [op |-> "updatePlatforms", newPlatforms |-> newPlatforms]
    /\ UNCHANGED matcherPc

NextCatalog ==
    \/ /\ initializeBegin
       /\ UNCHANGED <<agentVars, harnessVars, serverVars>>
    \/ \E source \in ConfigSources :
          /\ initializeEnd(source)
          /\ UNCHANGED <<agentVars, harnessVars, serverVars>>
    \/ LoadDefaultPlatforms /\ UNCHANGED <<agentVars, harnessVars, serverVars>>
    \/ \E newPlatforms \in Payloads :
          UpdatePlatforms(newPlatforms) /\ UNCHANGED <<agentVars, harnessVars, serverVars>>

SpecCatalog == InitMatcher /\ [][NextCatalog]_vars

----------------------------------------------------------------------------
(* The harness of the pure functions of the matcher: one call of
   normalizeString, levenshteinDistance or calculateSimilarity *)

MaxRawLen == 3

MaxNormalizedLen == 3

\* characters of raw input: a capital, a small letter, a digit, a blank, a
\* special character and a letter outside ASCII
RawChars == {"A", "b", "3", " ", "-", "^"}

\* characters of normalized strings
NormalizedChars == {"a", "b", "c"}

RECURSIVE StringsOver(_, _)
\* the strings over chars of length n at most
StringsOver(chars, n) ==
    IF n = 0 THEN {""}
    ELSE LET shorter == StringsOver(chars, n - 1)
         IN  shorter \cup {str \o c : str \in shorter, c \in chars}

RawStrings == StringsOver(RawChars, MaxRawLen)

NormalizedStrings == StringsOver(NormalizedChars, MaxNormalizedLen)

NormalizeString(str) ==
    /\ matched = NoMatch
    /\ matched' = [op |-> "normalizeString", str |-> str, result |-> normalizeString(str)]
    /\ UNCHANGED <<platforms, aliasMap, matcherPc>>

LevenshteinDistance(str1, str2) ==
    /\ matched = NoMatch
    /\ matched' = [op |-> "levenshteinDistance", str1 |-> str1, str2 |-> str2,
                   result |-> levenshteinDistance(str1, str2)]
    /\ UNCHANGED <<platforms, aliasMap, matcherPc>>

CalculateSimilarity(str1, str2) ==
    /\ matched = NoMatch
    /\ matched' = [op |-> "calculateSimilarity", str1 |-> str1, str2 |-> str2,
                   result |-> calculateSimilarity(str1, str2)]
    /\ UNCHANGED <<platforms, aliasMap, matcherPc>>

NextPure ==
    \/ \E str \in RawStrings :
          NormalizeString(str) /\ UNCHANGED <<agentVars, harnessVars, serverVars>>
    \/ \E str1 \in NormalizedStrings, str2 \in NormalizedStrings :
          LevenshteinDistance(str1, str2) /\ UNCHANGED <<agentVars, harnessVars, serverVars>>
    \/ \E str1 \in NormalizedStrings, str2 \in NormalizedStrings :
          CalculateSimilarity(str1, str2) /\ UNCHANGED <<agentVars, harnessVars, serverVars>>

SpecPure == InitMatcher /\ [][NextPure]_vars

----------------------------------------------------------------------------
(* server.js: start() and the export of the app *)

\* a request reaches its handler: the app is exported to the platform at module
\* load, after start() was called (process.env.VERCEL set), or app.listen was
\* called
Reachable ==
    IF serving = "exported" THEN matcherPc # "new" ELSE serving = "listening"

\* start() up to the await of platformMatcher.initialize()
startBegin ==
    /\ initializeBegin
    /\ UNCHANGED serverVars

\* start() after initialize returned: app.listen unless process.env.VERCEL is set
startEnd(source) ==
    /\ initializeEnd(source)
    /\ serving' = IF serving = "starting" THEN "listening" ELSE serving
    /\ UNCHANGED <<historyKind, requests, storageHistory, requestLog, tickets>>

----------------------------------------------------------------------------
(* The history services behind historyService *)

HistoryKinds == {"memory", "notion"}

\* what becomes of the page creation of HistoryService.logAction at the Notion API
SinkOutcomes == IF historyKind = "notion" THEN {"ok", "fail"} ELSE {"ok"}

\* req.body.userId
UserId == "u1"

\* the fields of the last argument that InMemoryStorage.logAction reads
NoMetadata == [account |-> NULL, platform |-> NULL, priority |-> NULL]

\* a logAction call with five arguments
PositionalArgs(requestId, ticketId, userId, action, metadata) ==
    [style |-> "positional", requestId |-> requestId, ticketId |-> ticketId,
     userId |-> userId, action |-> action, metadata |-> metadata]

\* a logAction call with the one argument {requestId, userId, action, data}
ObjectArgs(requestId, userId, action) ==
    [style |-> "object", requestId |-> requestId, ticketId |-> NULL,
     userId |-> userId, action |-> action, metadata |-> NoMetadata]

\* the entry InMemoryStorage.logAction pushes: called with one object, the
\* object (written 0) is its requestId and every other parameter is undefined
storageEntry(args) ==
    IF args.style = "positional"
    THEN [requestId |-> Some(args.requestId), ticketId |-> args.ticketId,
          userId |-> Some(args.userId), action |-> Some(args.action),
          account |-> args.metadata.account, platform |-> args.metadata.platform,
          priority |-> args.metadata.priority]
    ELSE [requestId |-> Some(0), ticketId |-> NULL, userId |-> NULL, action |-> NULL,
          account |-> NULL, platform |-> NULL, priority |-> NULL]

\* the entry HistoryService.logAction pushes and its key: called with five
\* arguments, the first one (a string) is destructured and every field is undefined
requestLogEntry(args) ==
    IF args.style = "object"
    THEN [key |-> Some(args.requestId), action |-> Some(args.action)]
    ELSE [key |-> NULL, action |-> NULL]

\* the two logs as they are now
CurrentLog == [storageHistory |-> storageHistory, requestLog |-> requestLog, threw |-> FALSE]

\* logAction letting the failure of the Notion write reach its caller
logActionRethrows(log, args, outcome) ==
    IF historyKind = "memory"
    THEN [storageHistory |-> Append(log.storageHistory, storageEntry(args)),
          requestLog |-> log.requestLog, threw |-> FALSE]
    ELSE [storageHistory |-> log.storageHistory,
          requestLog |-> Append(log.requestLog, requestLogEntry(args)),
          threw |-> outcome = "fail"]

\* historyService.logAction on the logs: the logs after the call and whether
\* it threw. InMemoryStorage pushes the entry; HistoryService pushes to
\* requestLog and writes to Notion inside a try whose catch only prints
logAction(log, args, outcome) ==
    IF historyKind = "memory"
    THEN [storageHistory |-> Append(log.storageHistory, storageEntry(args)),
          requestLog |-> log.requestLog, threw |-> FALSE]
    ELSE [storageHistory |-> log.storageHistory,
          requestLog |-> Append(log.requestLog, requestLogEntry(args)),
          threw |-> FALSE]

----------------------------------------------------------------------------
(* server.js: POST /api/chat *)

\* the assignment leaving platformId out
withPlatformNoId(data, platform, platformId) ==
    [account |-> data.account, platform |-> platform, tagType |-> data.tagType,
     priority |-> data.priority, platformId |-> NULL]

\* extractedData with the platform and platformId the handler assigns
withPlatform(data, platform, platformId) ==
    [account |-> data.account, platform |-> platform, tagType |-> data.tagType,
     priority |-> data.priority, platformId |-> platformId]

\* the branches of the validation once platformMatcher.matchPlatform returned
\* platformMatch: the response after it, and the platformSuggestions it is
\* given (NULL when it is given none)
platformValidation(response, platformMatch) ==
    IF ~(response.success /\ truthy(response.extractedData.platform))
    THEN [response |->
            IF response.success
            THEN [response EXCEPT !.extractedData = withPlatform(@, @.platform, NULL)]
            ELSE response,
          platformSuggestions |-> NULL]
    ELSE IF platformMatch # NULL
    THEN [response |->
            [response EXCEPT !.extractedData =
               withPlatform(@, Some(platformMatch[1].name), Some(platformMatch[1].id))],
          platformSuggestions |-> NULL]
    ELSE [response |->
            [response EXCEPT !.extractedData = withPlatform(@, @.platform, NULL)],
          platformSuggestions |->
            Some(suggestPlatforms(response.extractedData.platform[1], DefaultLimit))]

\* the validation attaching the suggestions whether or not the platform resolved
validatePlatformAlwaysSuggesting(response) ==
    LET validated == platformValidation(response,
                                        IF response.success
                                           /\ truthy(response.extractedData.platform)
                                        THEN matchPlatform(response.extractedData.platform[1])
                                        ELSE NULL)
    IN  IF response.success /\ truthy(response.extractedData.platform)
        THEN [validated EXCEPT !.platformSuggestions =
                Some(suggestPlatforms(response.extractedData.platform[1], DefaultLimit))]
        ELSE validated

\* the validation of the extracted platform (if response.success &&
\* response.extractedData.platform)
validatePlatform(response) ==
    platformValidation(response,
                       IF response.success /\ truthy(response.extractedData.platform)
                       THEN matchPlatform(response.extractedData.platform[1])
                       ELSE NULL)

\* a chat request waiting for processMessage (call k of the agent)
ChatAwaiting(k, failedWrites) ==
    [kind |-> "chat", pc |-> "awaiting", call |-> k, failedWrites |-> failedWrites,
     status |-> 0, response |-> Pending, platformSuggestions |-> NULL]

\* a request answered with a status and a body
Answered(kind, k, failedWrites, status, response, platformSuggestions) ==
    [kind |-> kind, pc |-> "done", call |-> k, failedWrites |-> failedWrites,
     status |-> status, response |-> response, platformSuggestions |-> platformSuggestions]

\* the Notion writes of a logAction call that failed
FailedWrite(action, outcome) == IF outcome = "fail" THEN {action} ELSE {}

\* requests with the frame of request r set
SetRequest(r, frame) ==
    [i \in 1..Len(requests) \cup {r} |-> IF i = r THEN frame ELSE requests[i]]

\* the catch block of a handler: the error is logged under action and answered
\* with 500
Caught(kind, r, k, failedWrites, action, log) ==
    LET errorLog == logAction(log, ObjectArgs(r, UserId, action), "ok")
    IN  /\ requests' = SetRequest(r, Answered(kind, k, failedWrites, 500,
                                             Failure("Failed to log to Notion"), NULL))
        /\ storageHistory' = errorLog.storageHistory
        /\ requestLog' = errorLog.requestLog

\* res.json, or the catch block when the ai_response event threw
ChatAnswer(r, k, failed, validated, logged) ==
    IF logged.threw
    THEN Caught("chat", r, k, failed, "error", logged)
    ELSE /\ requests' = SetRequest(r, Answered("chat", k, failed, 200, validated.response,
                                              validated.platformSuggestions))
         /\ storageHistory' = logged.storageHistory
         /\ requestLog' = logged.requestLog

\* the handler after processMessage returned response to request r: platform
\* validation, the ai_response event, res.json
ChatFinish(r, k, failedWrites, response, log, outcome) ==
    ChatAnswer(r, k, failedWrites \cup FailedWrite("ai_response", outcome),
               validatePlatform(response),
               logAction(log, ObjectArgs(r, UserId, "ai_response"), outcome))

MaxChats == 1

\* messages the validation of the request rejects
InvalidMessages == {"", "  "}

\* the chat requests made so far
ChatCount == Cardinality({r \in 1..Len(requests) : requests[r].kind = "chat"})

\* a chat request whose message is empty once trimmed: 400, nothing else happens
ChatInvalid(message) ==
    /\ Reachable
    /\ Len(trim(message)) < 1
    /\ requests' = Append(requests,
                      Answered("chat", 0, {}, 400, Failure("Invalid value"), NULL))
    /\ UNCHANGED <<historyKind, storageHistory, requestLog, tickets, serving>>
    /\ UNCHANGED <<agentVars, harnessVars, matcherVars>>

\* a chat request up to the await of generateContent: the chat_message event,
\* then processMessage
ChatBegin(message, conversationId, outcome) ==
    LET r      == Len(requests) + 1
        logged == logAction(CurrentLog,
                            PositionalArgs(r, NULL, UserId, "chat_message", NoMetadata),
                            outcome)
        failed == FailedWrite("chat_message", outcome)
    IN  /\ Reachable
        /\ model
        /\ IF logged.threw
           THEN /\ Caught("chat", r, 0, failed, "error", logged)
                /\ UNCHANGED <<agentVars, harnessVars>>
           ELSE /\ ProcessBegin(message, conversationId)
                /\ requests' = Append(requests, ChatAwaiting(Len(calls) + 1, failed))
                /\ storageHistory' = logged.storageHistory
                /\ requestLog' = logged.requestLog
        /\ UNCHANGED <<historyKind, tickets, serving>>
        /\ UNCHANGED matcherVars

\* a chat request when no model is configured: processMessage returns its
\* failure at once and the handler runs to res.json
ChatUnconfigured(message, conversationId, outcome, outcome2) ==
    LET r      == Len(requests) + 1
        logged == logAction(CurrentLog,
                            PositionalArgs(r, NULL, UserId, "chat_message", NoMetadata),
                            outcome)
        failed == FailedWrite("chat_message", outcome)
    IN  /\ Reachable
        /\ ~model
        /\ IF logged.threw
           THEN /\ Caught("chat", r, 0, failed, "error", logged)
                /\ UNCHANGED <<agentVars, harnessVars>>
           ELSE /\ ProcessUnconfigured(message, conversationId)
                /\ ChatFinish(r, Len(calls) + 1, failed, calls'[Len(calls) + 1].result,
                              logged, outcome2)
        /\ UNCHANGED <<historyKind, tickets, serving>>
        /\ UNCHANGED matcherVars

\* generateContent of the call of request r resolved: processMessage returns
\* its result and the handler runs to res.json
ChatResolve(r, aiResponse, outcome) ==
    /\ r \in 1..Len(requests)
    /\ requests[r].kind = "chat"
    /\ requests[r].pc = "awaiting"
    /\ ProcessResolve(requests[r].call, aiResponse)
    /\ ChatFinish(r, requests[r].call, requests[r].failedWrites,
                  calls'[requests[r].call].result, CurrentLog, outcome)
    /\ UNCHANGED <<historyKind, tickets, serving>>
    /\ UNCHANGED matcherVars

\* generateContent of the call of request r rejected: processMessage returns
\* its failure and the handler runs to res.json
ChatReject(r, errorMessage, outcome) ==
    /\ r \in 1..Len(requests)
    /\ requests[r].kind = "chat"
    /\ requests[r].pc = "awaiting"
    /\ ProcessReject(requests[r].call, errorMessage)
    /\ ChatFinish(r, requests[r].call, requests[r].failedWrites,
                  calls'[requests[r].call].result, CurrentLog, outcome)
    /\ UNCHANGED <<historyKind, tickets, serving>>
    /\ UNCHANGED matcherVars

----------------------------------------------------------------------------
(* server.js: POST /api/tickets/create, InMemoryStorage.createTicket *)

MaxTicketRequests == 2

\* the data of the create-ticket requests (an empty string is a field sent empty)
TicketData ==
    {[account |-> Some("Nike"), platform |-> Some("Google DV360"),
      tagType |-> Some("Tracker"), priority |-> Some("High")],
     [account |-> Some("Nike"), platform |-> Some("Criteo"),
      tagType |-> Some("Tracker"), priority |-> Some("High")],
     [account |-> Some("Nike"), platform |-> Some("Google DV360"),
      tagType |-> Some("Tracker"), priority |-> NULL],
     [account |-> Some(""), platform |-> NULL,
      tagType |-> Some("Video Wrapper"), priority |-> Some("Low")],
     EmptyData}

required == <<"account", "platform", "tagType", "priority">>

\* the filter looking at the platform alone
missingFieldsPlatformOnly(data) ==
    SelectSeq(<<"platform">>, LAMBDA field : ~truthy(data[field]))

\* required.filter(field => !data[field])
missingFields(data) ==
    SelectSeq(required, LAMBDA field : ~truthy(data[field]))

\* the ticket requests made so far
TicketCount == Cardinality({r \in 1..Len(requests) : requests[r].kind = "ticket"})

\* ticket_${Date.now()}_${random}: unique per ticket
TicketId(n) == "ticket_" \o ToString(n)

\* the ticket InMemoryStorage.createTicket builds from ticketData (the fields
\* the requests of the model set)
Ticket(id, ticketData) ==
    [id |-> id, requestId |-> ticketData.requestId, account |-> ticketData.account,
     platform |-> ticketData.platform, platformId |-> ticketData.platformId,
     tagType |-> ticketData.tagType, priority |-> ticketData.priority,
     status |-> "pending", requestor |-> ticketData.requestor]

\* the answer to a create-ticket request that is turned down
Rejected(error, missing, suggestions) ==
    [success |-> FALSE, error |-> error, missing |-> missing, suggestions |-> suggestions]

\* the try block of the handler once the platform is resolved: the two audit
\* events around storageService.createTicket; outcome and outcome2 are the
\* Notion writes of the two events
TicketStore(r, data, platform, outcome, outcome2) ==
    LET ticketData == [account |-> data.account, platform |-> Some(platform.name),
                       platformId |-> Some(platform.id), tagType |-> data.tagType,
                       priority |-> data.priority, requestor |-> UserId, requestId |-> r]
        ticket     == Ticket(TicketId(Len(tickets) + 1), ticketData)
        metadata   == [account |-> ticket.account, platform |-> ticket.platform,
                       priority |-> ticket.priority]
        started    == logAction(CurrentLog, ObjectArgs(r, UserId, "ticket_creation_started"),
                                outcome)
        \* createTicket logs to the history of the storage itself
        stored     == [started EXCEPT !.storageHistory =
                         Append(@, storageEntry(PositionalArgs(r, Some(ticket.id), UserId,
                                                               "created", metadata)))]
        created    == logAction(stored,
                                PositionalArgs(r, Some(ticket.id), UserId, "ticket_created",
                                               metadata),
                                outcome2)
        failed     == FailedWrite("ticket_creation_started", outcome)
                      \cup FailedWrite("ticket_created", outcome2)
    IN  IF started.threw
        THEN /\ Caught("ticket", r, 0, failed, "ticket_creation_failed", started)
             /\ UNCHANGED tickets
        ELSE IF created.threw
        THEN /\ Caught("ticket", r, 0, failed, "ticket_creation_failed", created)
             /\ tickets' = Append(tickets, ticket)
        ELSE /\ requests' = Append(requests,
                              Answered("ticket", 0, failed, 200,
                                       [success |-> TRUE, ticket |-> ticket.id], NULL))
             /\ storageHistory' = created.storageHistory
             /\ requestLog' = created.requestLog
             /\ tickets' = Append(tickets, ticket)

\* the handler of a create-ticket request, from the validation to the answer
TicketCreate(data, outcome, outcome2) ==
    /\ Reachable
    /\ IF Len(missingFields(data)) > 0
       THEN /\ requests' = Append(requests,
                             Answered("ticket", 0, {}, 400,
                                      Rejected("Missing required fields", missingFields(data),
                                               << >>),
                                      NULL))
            /\ UNCHANGED <<storageHistory, requestLog, tickets>>
       ELSE IF matchPlatform(data.platform[1]) = NULL
       THEN /\ requests' = Append(requests,
                             Answered("ticket", 0, {}, 400,
                                      Rejected("Invalid platform", << >>,
                                               suggestPlatforms(data.platform[1], DefaultLimit)),
                                      NULL))
            /\ UNCHANGED <<storageHistory, requestLog, tickets>>
       ELSE TicketStore(Len(requests) + 1, data, matchPlatform(data.platform[1])[1],
                        outcome, outcome2)
    /\ UNCHANGED <<historyKind, serving>>
    /\ UNCHANGED <<agentVars, harnessVars, matcherVars>>

----------------------------------------------------------------------------
(* The server: start(), the chat requests and the create-ticket requests *)

InitServer ==
    /\ model \in BOOLEAN
    /\ conversations = [c \in ConvIds |-> 0]
    /\ arrays = << >>
    /\ calls = << >>
    /\ sent = << >>
    /\ lastResult = [c \in ConvIds |-> NoResult]
    /\ cleared = << >>
    /\ aiIn = ""
    /\ userIn = ""
    /\ xOut = EmptyData
    /\ xpc = "off"
    /\ MatcherNew
    /\ historyKind \in HistoryKinds
    /\ StoreEmpty
    /\ serving \in {"exported", "starting"}

\* start() and the chat requests
NextChat ==
    \/ /\ startBegin
       /\ UNCHANGED <<agentVars, harnessVars>>
    \/ \E source \in ConfigSources :
          /\ startEnd(source)
          /\ UNCHANGED <<agentVars, harnessVars>>
    \/ \E m \in InvalidMessages :
          ChatCount < MaxChats /\ ChatInvalid(m)
    \/ \E m \in UserMessages, c \in ConversationIdArgs, o \in SinkOutcomes :
          ChatCount < MaxChats /\ ChatBegin(m, c, o)
    \/ \E m \in UserMessages, c \in ConversationIdArgs, o \in SinkOutcomes, o2 \in SinkOutcomes :
          ChatCount < MaxChats /\ ChatUnconfigured(m, c, o, o2)
    \/ \E r \in 1..Len(requests), a \in AiResponses, o \in SinkOutcomes : ChatResolve(r, a, o)
    \/ \E r \in 1..Len(requests), e \in UpstreamErrors, o \in SinkOutcomes : ChatReject(r, e, o)

SpecChat == InitServer /\ [][NextChat]_vars

\* start() and the create-ticket requests
NextTickets ==
    \/ /\ startBegin
       /\ UNCHANGED <<agentVars, harnessVars>>
    \/ \E source \in ConfigSources :
          /\ startEnd(source)
          /\ UNCHANGED <<agentVars, harnessVars>>
    \/ \E d \in TicketData, o \in SinkOutcomes, o2 \in SinkOutcomes :
          TicketCount < MaxTicketRequests /\ TicketCreate(d, o, o2)

SpecTickets == InitServer /\ [][NextTickets]_vars

----------------------------------------------------------------------------
(* Claims about extractData, checked under SpecExtract *)

ConfirmationMarkers ==
    {"confirm", "i've extracted", "i have extracted", "summarize", "summary",
     CHECKMARK, "ready to create"}

ContainsMarker(text) ==
    \E m \in ConfirmationMarkers : includes(toLowerCase(text), m)

\* C1: when the assistant text contains none of the confirmation markers
\* (case-insensitively), extractData returns the record with account, platform,
\* tagType and priority all null, whatever the user text contains.
C1_NoMarkerAllNull ==
    (xpc = "extracted" /\ ~ContainsMarker(aiIn)) =>
        /\ xOut.account = NULL
        /\ xOut.platform = NULL
        /\ xOut.tagType = NULL
        /\ xOut.priority = NULL

\* C1 witness: an assistant text with a field marker but no confirmation marker,
\* a user text with platform keywords and the words confirm and summary, and the
\* extraction done with an all-null result.
C1_Witness ==
    /\ xpc = "extracted"
    /\ ~ContainsMarker(aiIn)
    /\ includes(toLowerCase(aiIn), "platform:")
    /\ includes(toLowerCase(userIn), "ttd")
    /\ includes(toLowerCase(userIn), "confirm")
    /\ xOut = EmptyData

FieldMarkers ==
    [account  |-> {"client:", "account:"},
     platform |-> {"platform:"},
     tagType  |-> {"tag type:", "type:"},
     priority |-> {"priority:"}]

\* C13: extractData returns a non-null account only if the assistant text
\* contains client: or account:, a non-null platform only if it contains
\* platform:, a non-null tagType only if it contains tag type: or type:, and a
\* non-null priority only if it contains priority: (case-insensitively).
C13_FieldNeedsItsMarker ==
    xpc = "extracted" =>
        \A f \in Fields :
            xOut[f] # NULL => \E m \in FieldMarkers[f] : includes(toLowerCase(aiIn), m)

\* C13 witness: a confirmed assistant text carrying the platform marker alone,
\* a user text with the keywords of all four fields, and a record that holds
\* the platform and nothing else.
C13_Witness ==
    /\ xpc = "extracted"
    /\ ContainsMarker(aiIn)
    /\ userIn = "urgent Nike tracker for DV360"
    /\ xOut = [EmptyData EXCEPT !.platform = Some("Google DV360")]

----------------------------------------------------------------------------
(* Claims about the turn, checked under Spec *)

Returned(k) == k \in 1..Len(calls) /\ calls[k].pc = "returned"

Succeeded(k) == Returned(k) /\ calls[k].result.success

Failed(k) == Returned(k) /\ ~calls[k].result.success

\* call k returns in this step
ReturnsNow(k) ==
    /\ k \in 1..Len(calls')
    /\ calls'[k].pc = "returned"
    /\ (k > Len(calls) \/ calls[k].pc = "awaiting")

\* the slot record of a session: the extractedData of its latest successful turn
SlotRecord(c) ==
    IF lastResult[c] = NoResult THEN EmptyData ELSE lastResult[c].extractedData

HasTurn(h, userText, aiText) ==
    \E i \in 1..(Len(h) - 1) :
        h[i] = UserEntry(userText) /\ h[i + 1] = AssistantEntry(aiText)

\* C2: a processMessage call that returns a failure (model unconfigured, or
\* generateContent failed) leaves the stored history and the slot record of
\* every session as they were before the call returned.
C2_FailedTurnChangesNothing ==
    [][\A k \in 1..MaxCalls :
          (ReturnsNow(k) /\ ~calls'[k].result.success) =>
              \A c \in ConvIds :
                  /\ getConversation(c)' = getConversation(c)
                  /\ SlotRecord(c)' = SlotRecord(c)]_vars

\* C2 witness: a call failed at the adapter for a session that has stored turns.
C2_Witness ==
    \E k \in 1..Len(calls) :
        /\ Failed(k)
        /\ calls[k].history # 0
        /\ Len(getConversation(calls[k].convId[1])) >= 2
        /\ calls[k].fullPrompt #
              buildPromptWithHistory(buildSystemPrompt, << >>, calls[k].message)

\* C3: when two calls for one conversation id overlap and both succeed, the
\* stored history of that conversation holds the user entry of each turn
\* immediately followed by its assistant entry (no clearConversation involved).
C3_NoTurnLost ==
    \A j, k \in 1..Len(calls) :
        (/\ j \in calls[k].concurrent
         /\ Succeeded(j)
         /\ Succeeded(k)
         /\ calls[j].convId = calls[k].convId
         /\ cleared = << >>) =>
            LET h == getConversation(calls[k].convId[1])
            IN  /\ HasTurn(h, calls[j].message, calls[j].aiResponse[1])
                /\ HasTurn(h, calls[k].message, calls[k].aiResponse[1])

\* C4: for two turns stored in one conversation, the prompt sent for the later
\* one contains the user and assistant lines of the earlier one.
C4_PromptHoldsEarlierTurns ==
    \A c \in ConvIds :
        conversations[c] # 0 =>
            LET h == arrays[conversations[c]]
                p == sent[conversations[c]]
            IN  \A i, j \in 1..Len(p) :
                    i < j =>
                        includes(p[j],
                                 "User: " \o h[2 * i - 1].content \o "\n"
                                 \o "Assistant: " \o h[2 * i].content \o "\n")

\* C5: without a reset, a field that is non-null in the slot record of a
\* session is still non-null in the slot record after the next successful turn.
C5_SlotsAccumulate ==
    [][\A c \in ConvIds, f \in Fields :
          (SlotRecord(c)[f] # NULL /\ cleared' = cleared) =>
              SlotRecord(c)'[f] # NULL]_vars

\* C6: a successful turn whose assistant text confirms Platform: The Trade Desk,
\* in a session whose slot record holds Google DV360 and the three other fields,
\* sets the platform to The Trade Desk and keeps the three other fields.
C6_CorrectionKeepsOtherFields ==
    [][\A k \in 1..MaxCalls, c \in ConvIds :
          (/\ ReturnsNow(k)
           /\ calls'[k].result.success
           /\ calls'[k].convId = Some(c)
           /\ includes(calls'[k].aiResponse[1], "Platform: The Trade Desk")
           /\ SlotRecord(c).platform = Some("Google DV360")
           /\ \A f \in Fields : SlotRecord(c)[f] # NULL) =>
              SlotRecord(c)' = [SlotRecord(c) EXCEPT !.platform = Some("The Trade Desk")]]_vars

\* C7: in every successful result, complete is true exactly when account,
\* platform, tagType and priority of its extractedData are all non-null.
C7_CompleteIffAllFields ==
    \A k \in 1..Len(calls) :
        Succeeded(k) =>
            (calls[k].result.complete <=>
                \A f \in Fields : calls[k].result.extractedData[f] # NULL)

\* C7 witness: one successful result is complete and another is not.
C7_Witness ==
    /\ \E k \in 1..Len(calls) : Succeeded(k) /\ calls[k].result.complete
    /\ \E k \in 1..Len(calls) : Succeeded(k) /\ ~calls[k].result.complete

InSeq(x, sq) == \E i \in 1..Len(sq) : sq[i] = x

\* C8: in every successful result the actions hold create only when all four
\* fields of the extractedData are non-null, and hold reset in every case.
C8_CreateOnlyWhenComplete ==
    \A k \in 1..Len(calls) :
        Succeeded(k) =>
            /\ InSeq("reset", calls[k].result.actions)
            /\ InSeq("create", calls[k].result.actions) =>
                  \A f \in Fields : calls[k].result.extractedData[f] # NULL

\* C8 witness: a complete result offering create and reset, and an incomplete
\* result offering reset alone.
C8_Witness ==
    /\ \E k \in 1..Len(calls) :
          Succeeded(k) /\ calls[k].result.actions = <<"create", "reset">>
    /\ \E k \in 1..Len(calls) :
          /\ Succeeded(k)
          /\ calls[k].result.extractedData.priority = NULL
          /\ calls[k].result.actions = <<"reset">>

C10_CompleteStaysComplete ==
    [][\A c \in ConvIds :
          (/\ lastResult[c] # NoResult
           /\ lastResult[c].complete
           /\ lastResult'[c] # NoResult) =>
              lastResult'[c].complete]_vars

IsPrefix(s, t) == Len(s) <= Len(t) /\ SubSeq(t, 1, Len(s)) = s

\* C11: as long as no conversation is cleared, the stored history of every
\* session extends its earlier value, and a successful turn appends exactly
\* the user entry followed by the assistant entry to the history of its session.
C11_HistoryAppendOnly ==
    [][cleared' = << >> =>
          /\ \A c \in ConvIds : IsPrefix(getConversation(c), getConversation(c)')
          /\ \A k \in 1..MaxCalls, c \in ConvIds :
                (ReturnsNow(k) /\ calls'[k].result.success /\ calls'[k].convId = Some(c)) =>
                    getConversation(c)' =
                        getConversation(c)
                        \o <<UserEntry(calls'[k].message),
                             AssistantEntry(calls'[k].aiResponse[1])>>]_vars

\* call k takes a step (it is invoked, or it returns)
StepsNow(k) ==
    /\ k \in 1..Len(calls')
    /\ (k > Len(calls) \/ calls'[k] # calls[k])

\* C12: a step of a processMessage call for one conversation id, whether the
\* call succeeds or fails, leaves the stored history and the slot record of
\* every other conversation id as they were.
C12_SessionsIsolated ==
    [][\A k \in 1..MaxCalls :
          StepsNow(k) =>
              \A b \in ConvIds :
                  calls'[k].convId # Some(b) =>
                      /\ getConversation(b)' = getConversation(b)
                      /\ SlotRecord(b)' = SlotRecord(b)]_vars

\* C12 witness: two overlapping calls for different conversation ids both
\* succeeded and each id holds its own turn.
C12_Witness ==
    \E j, k \in 1..Len(calls) :
        /\ j \in calls[k].concurrent
        /\ Succeeded(j)
        /\ Succeeded(k)
        /\ calls[j].convId # calls[k].convId
        /\ getConversation(calls[j].convId[1]) =
              <<UserEntry(calls[j].message), AssistantEntry(calls[j].aiResponse[1])>>
        /\ getConversation(calls[k].convId[1]) =
              <<UserEntry(calls[k].message), AssistantEntry(calls[k].aiResponse[1])>>

----------------------------------------------------------------------------
(* Claims about the matcher, checked under SpecMatcher *)

MatchedPlatform == matched.op = "matchPlatform"

Suggested == matched.op = "suggestPlatforms"

\* the normalized names and aliases of a platform
keysOf(p) ==
    {normalizeTable[p.name]} \cup {normalizeTable[p.aliases[j]] : j \in 1..Len(p.aliases)}

\* the platform registered under a key: the last one of the catalog that has it
RegisteredUnder(key) ==
    platforms[Max({i \in 1..Len(platforms) : key \in keysOf(platforms[i])})]

IsKey(key) == \E i \in 1..Len(platforms) : key \in keysOf(platforms[i])

\* the maximum of the similarities of an input to the name and aliases of a platform
BestSimilarity(input, p) ==
    CHOOSE best \in {similarityTable[normalizeTable[input], key] : key \in keysOf(p)} :
        \A key \in keysOf(p) : ~ScoreGT(similarityTable[normalizeTable[input], key], best)

\* C14 as stated: for every input whose normalized form is a key of the alias
\* map, matchPlatform returns the platform registered under that key.
C14_ExactOutranksFuzzy ==
    (MatchedPlatform /\ IsKey(normalizeTable[matched.input])) =>
        matched.result = Some(RegisteredUnder(normalizeTable[matched.input]))

\* C14 amended: for every non-empty input whose normalized form is a key of the
\* alias map, matchPlatform returns the platform registered under that key.
C14_NonEmptyExactOutranksFuzzy ==
    (MatchedPlatform /\ matched.input # "" /\ IsKey(normalizeTable[matched.input])) =>
        matched.result = Some(RegisteredUnder(normalizeTable[matched.input]))

\* C14 witness: the input is a key of one platform while the fuzzy match picks
\* another platform with the best score, and the platform of the key is returned.
C14_Witness ==
    /\ MatchedPlatform
    /\ matched.input # ""
    /\ IsKey(normalizeTable[matched.input])
    /\ fuzzyMatch(matched.input) # NULL
    /\ fuzzyMatch(matched.input)[1].platform # RegisteredUnder(normalizeTable[matched.input])
    /\ ScoreGT(fuzzyMatch(matched.input)[1].score, MatchThreshold)
    /\ matched.result = Some(RegisteredUnder(normalizeTable[matched.input]))

\* C15: a platform returned by matchPlatform has a best similarity to the
\* input (the maximum over its name and aliases) strictly greater than 0.8, and
\* every entry returned by suggestPlatforms carries a score, the best
\* similarity of its platform, strictly greater than 0.3.
C15_Thresholds ==
    /\ (MatchedPlatform /\ matched.result # NULL) =>
          ScoreGT(BestSimilarity(matched.input, matched.result[1]), <<8, 10>>)
    /\ Suggested =>
          \A k \in 1..Len(matched.result) :
              /\ ScoreGT(matched.result[k].score, <<3, 10>>)
              /\ \E i \in 1..Len(platforms) :
                    /\ platforms[i].id = matched.result[k].id
                    /\ ScoreEQ(matched.result[k].score,
                               BestSimilarity(matched.input, platforms[i]))

\* C15 witness: an input that is no key was resolved by the fuzzy match with a
\* best similarity between 0.8 and 0.9.
C15_Witness ==
    /\ MatchedPlatform
    /\ matched.result # NULL
    /\ ~IsKey(normalizeTable[matched.input])
    /\ ScoreGT(<<9, 10>>, BestSimilarity(matched.input, matched.result[1]))

\* the platforms of the catalog whose best similarity to the input exceeds 0.3
Qualifying(input) ==
    {i \in 1..Len(platforms) : ScoreGT(BestSimilarity(input, platforms[i]), <<3, 10>>)}

\* the platform of the catalog with the id of a suggestion
IndexOfId(id) == CHOOSE i \in 1..Len(platforms) : platforms[i].id = id

\* a platform with score sa and priority pa does not sort after one with sb, pb
NotAfter(sa, pa, sb, pb) ==
    \/ ScoreGT(sa, sb)
    \/ ScoreEQ(sa, sb) /\ (IF pa = 0 THEN 999 ELSE pa) <= (IF pb = 0 THEN 999 ELSE pb)

\* C16: suggestPlatforms(input, limit) returns at most limit entries, ordered
\* by score descending and, for equal scores, by ascending priority; they are
\* the first limit entries of that ordering over all platforms whose best
\* score exceeds 0.3.
C16_SuggestionsRankedAndCut ==
    Suggested =>
        LET r    == matched.result
            q    == Qualifying(matched.input)
            idx  == [k \in 1..Len(r) |-> IndexOfId(r[k].id)]
            best == [i \in q |-> BestSimilarity(matched.input, platforms[i])]
        IN  /\ Len(r) <= matched.limit
            /\ Len(r) = (IF Cardinality(q) < matched.limit THEN Cardinality(q)
                         ELSE matched.limit)
            /\ \A k \in 1..Len(r) : idx[k] \in q /\ ScoreEQ(r[k].score, best[idx[k]])
            /\ \A j, k \in 1..Len(r) : j # k => idx[j] # idx[k]
            /\ \A k \in 1..(Len(r) - 1) :
                  NotAfter(r[k].score, platforms[idx[k]].priority,
                           r[k + 1].score, platforms[idx[k + 1]].priority)
            /\ \A i \in q :
                  (\A k \in 1..Len(r) : idx[k] # i) =>
                      \A k \in 1..Len(r) :
                          NotAfter(r[k].score, platforms[idx[k]].priority,
                                   best[i], platforms[i].priority)

\* C16 witness: more platforms qualify than the limit allows, the result is cut
\* to the limit and holds two entries of equal score ordered by priority.
C16_Witness ==
    /\ Suggested
    /\ matched.limit >= 2
    /\ Len(matched.result) = matched.limit
    /\ Cardinality(Qualifying(matched.input)) > matched.limit
    /\ \E k \in 1..(Len(matched.result) - 1) :
          /\ ScoreEQ(matched.result[k].score, matched.result[k + 1].score)
          /\ platforms[IndexOfId(matched.result[k].id)].priority
               < platforms[IndexOfId(matched.result[k + 1].id)].priority

\* C20: once initialize has returned the matcher holds at least one platform
\* and its alias map is built, whatever was found at the config source.
C20_NeverEmptyCatalog ==
    matcherPc = "ready" =>
        /\ Len(platforms) >= 1
        /\ aliasMap = buildAliasMap(platforms)

\* C25: on the default catalog matchPlatform('trad desk') returns The Trade
\* Desk; the normalized input is no key of the alias map, the best similarity
\* of the input to that platform exceeds 0.8 and no platform of the catalog
\* has a higher one.
C25_TradDesk ==
    (MatchedPlatform /\ matched.input = "trad desk" /\ platforms = DefaultPlatforms) =>
        /\ matched.result # NULL
        /\ matched.result[1].id = "trade-desk"
        /\ matched.result[1].name = "The Trade Desk"
        /\ normalizeTable[matched.input] \notin DOMAIN aliasMap
        /\ ScoreGT(BestSimilarity(matched.input, matched.result[1]), <<8, 10>>)
        /\ \A i \in 1..Len(platforms) :
              ~ScoreGT(BestSimilarity(matched.input, platforms[i]),
                       BestSimilarity(matched.input, matched.result[1]))

\* C25 witness: the call was made on the default catalog and returned The
\* Trade Desk with a similarity of 8/9.
C25_Witness ==
    /\ MatchedPlatform
    /\ matched.input = "trad desk"
    /\ platforms = DefaultPlatforms
    /\ aliasMap = buildAliasMap(DefaultPlatforms)
    /\ matched.result # NULL
    /\ matched.result[1].id = "trade-desk"
    /\ BestSimilarity(matched.input, matched.result[1]) = <<8, 9>>

\* C28: for an input whose normalized form is the empty string, matchPlatform
\* returns null unless the empty key is registered in the alias map.
C28_EmptyNormalizedNeverResolves ==
    (MatchedPlatform /\ normalizeTable[matched.input] = "" /\ "" \notin DOMAIN aliasMap) =>
        matched.result = NULL

----------------------------------------------------------------------------
(* Claims about the catalog and its alias map, checked under SpecCatalog *)

\* the last platform of the catalog, in catalog order, with key among its
\* normalized name and aliases
LastWith(key) ==
    LET holders == {i \in 1..Len(platforms) : key \in keysOf(platforms[i])}
    IN  platforms[CHOOSE i \in holders : \A j \in holders : j <= i]

\* C26: every normalized name or alias of a platform of the catalog is a key
\* of the alias map, and a key maps to the platform that comes last in catalog
\* order among those having it.
C26_LastRegisteredWins ==
    /\ \A i \in 1..Len(platforms) : keysOf(platforms[i]) \subseteq DOMAIN aliasMap
    /\ \A key \in DOMAIN aliasMap : IsKey(key) => aliasMap[key] = LastWith(key)

\* C26 witness: two platforms register the key amazon; updatePlatforms was
\* given them in the reverse order of the config file and the key maps to the
\* second one given.
C26_Witness ==
    /\ matched = [op |-> "updatePlatforms",
                  newPlatforms |-> <<ConfigPlatforms[2], ConfigPlatforms[1]>>]
    /\ "amazon" \in keysOf(platforms[1]) \cap keysOf(platforms[2])
    /\ aliasMap["amazon"].id = "amazon-dsp"

\* C27: in every state the keys of the alias map are exactly the normalized
\* names and aliases of the platforms held, every value of the map is one of
\* the platforms held, and every platform held is active.
C27_AliasMapMatchesCatalog ==
    /\ DOMAIN aliasMap = UNION {keysOf(platforms[i]) : i \in 1..Len(platforms)}
    /\ \A key \in DOMAIN aliasMap : \E i \in 1..Len(platforms) : aliasMap[key] = platforms[i]
    /\ \A i \in 1..Len(platforms) : platforms[i].active = TRUE

\* C27 witness: after initialize loaded a catalog, updatePlatforms was given
\* an inactive platform and an active one; the catalog holds the active one
\* alone and the alias map has its keys only.
C27_Witness ==
    /\ matcherPc = "ready"
    /\ matched = [op |-> "updatePlatforms",
                  newPlatforms |-> <<ConfigPlatforms[4], ConfigPlatforms[3]>>]
    /\ platforms = <<ConfigPlatforms[3]>>
    /\ DOMAIN aliasMap = {"googleads"}

----------------------------------------------------------------------------
(* Claims about the chat requests, checked under SpecChat *)

\* request r is answered by this step
AnsweredNow(r) ==
    /\ r \in 1..Len(requests')
    /\ requests'[r].pc = "done"
    /\ r \in 1..Len(requests) => requests[r].pc = "awaiting"

\* request r is a chat request answered after processMessage returned
ChatAnswered(r) ==
    /\ r \in 1..Len(requests)
    /\ requests[r].kind = "chat"
    /\ requests[r].pc = "done"
    /\ requests[r].call # 0

\* what processMessage extracted for an answered chat request whose turn
\* succeeded with a platform, << >> otherwise
ExtractedPlatform(answer, result) ==
    IF answer.kind = "chat" /\ answer.call # 0 /\ result.success = TRUE
    THEN result.extractedData.platform
    ELSE NULL

\* C17: a chat request whose turn extracted a platform string is answered with
\* the canonical name and the platformId of the platform the matcher resolves
\* it to and no platformSuggestions; when the matcher resolves it to nothing
\* the turn still succeeds (200, success), platformId is unset, the platform
\* string is left as extracted and platformSuggestions is what suggestPlatforms
\* returns for it.
C17_ResolvedOrSuggested ==
    [][\A r \in 1..Len(requests') :
          (AnsweredNow(r) /\ requests'[r].call # 0
             /\ ExtractedPlatform(requests'[r], calls'[requests'[r].call].result) # NULL) =>
              LET answer    == requests'[r]
                  extracted == calls'[answer.call].result.extractedData.platform
                  resolved  == matchPlatform(extracted[1])
                  data      == answer.response.extractedData
              IN  /\ answer.status = 200
                  /\ answer.response.success = TRUE
                  /\ IF resolved # NULL
                     THEN /\ data.platform = Some(resolved[1].name)
                          /\ data.platformId = Some(resolved[1].id)
                          /\ answer.platformSuggestions = NULL
                     ELSE /\ data.platform = extracted
                          /\ data.platformId = NULL
                          /\ answer.platformSuggestions
                               = Some(suggestPlatforms(extracted[1], DefaultLimit))]_vars

\* C17 witness: a chat request answered while the catalog holds no platform
\* the extracted string resolves to, carrying at least one suggestion and no
\* platformId.
C17_Witness ==
    \E r \in 1..Len(requests) :
        /\ ChatAnswered(r)
        /\ requests[r].status = 200
        /\ requests[r].response.success = TRUE
        /\ calls[requests[r].call].result.extractedData.platform # NULL
        /\ requests[r].response.extractedData.platformId = NULL
        /\ requests[r].platformSuggestions # NULL
        /\ Len(requests[r].platformSuggestions[1]) >= 1

\* a chat request answered with the platform resolved: canonical name,
\* platformId, no suggestions
C17_ResolvedReached ==
    \E r \in 1..Len(requests) :
        /\ ChatAnswered(r)
        /\ requests[r].response.success = TRUE
        /\ calls[requests[r].call].result.extractedData.platform = Some("The Trade Desk")
        /\ requests[r].response.extractedData.platformId = Some("trade-desk")
        /\ requests[r].platformSuggestions = NULL

\* C19: a chat request one of whose audit events (chat_message, ai_response)
\* failed to be written is never answered with an error: it goes on to
\* processMessage and, when the turn succeeded, is answered 200 with the result
\* processMessage returned (the platform fields apart, which the validation
\* sets).
C19_SinkFailureHarmless ==
    \A r \in 1..Len(requests) :
        (requests[r].kind = "chat" /\ requests[r].failedWrites # {}) =>
            /\ requests[r].call # 0
            /\ requests[r].pc = "done" =>
                  LET result == calls[requests[r].call].result
                      answer == requests[r].response
                  IN  /\ requests[r].status = 200
                      /\ answer.success = result.success
                      /\ result.success = TRUE =>
                            /\ answer.conversationId = result.conversationId
                            /\ answer.actions = result.actions
                            /\ answer.suggestions = result.suggestions
                            /\ answer.complete = result.complete
                            /\ \A field \in {"account", "tagType", "priority"} :
                                  answer.extractedData[field] = result.extractedData[field]

\* C19 witness: both audit writes of a chat request failed and the request is
\* answered 200 with the successful result of its turn.
C19_Witness ==
    \E r \in 1..Len(requests) :
        /\ ChatAnswered(r)
        /\ requests[r].failedWrites = {"chat_message", "ai_response"}
        /\ calls[requests[r].call].result.success = TRUE
        /\ requests[r].status = 200
        /\ requests[r].response.success = TRUE
        /\ requests[r].response.extractedData.account = Some("Nike")

\* the turn of the first end-to-end scenario
ScenarioMessage == "urgent Nike tracker for DV360"

ScenarioAiResponse ==
    "Client: Nike # Platform: Google DV360 # Tag Type: Tracker # Priority: High #"

\* the call of request r carried the scenario's user text and assistant text
ScenarioTurn(call) ==
    /\ call.message = ScenarioMessage
    /\ call.aiResponse = Some(ScenarioAiResponse)

\* C21: a chat request whose turn has the user text 'urgent Nike tracker for
\* DV360' and the assistant text 'Client: Nike # Platform: Google DV360 # Tag
\* Type: Tracker # Priority: High #', answered while the matcher holds the
\* default catalog, carries account Nike, platform Google DV360 with the id of
\* that platform, tagType Tracker, priority High and complete = TRUE.
C21_ScenarioOne ==
    [][\A r \in 1..Len(requests') :
          (AnsweredNow(r) /\ requests'[r].call # 0
             /\ ScenarioTurn(calls'[requests'[r].call])
             /\ matcherPc = "ready" /\ platforms = DefaultPlatforms) =>
              LET answer == requests'[r].response
              IN  /\ requests'[r].status = 200
                  /\ answer.success = TRUE
                  /\ answer.extractedData.account = Some("Nike")
                  /\ answer.extractedData.platform = Some("Google DV360")
                  /\ answer.extractedData.platformId = Some("google-dv360")
                  /\ answer.extractedData.tagType = Some("Tracker")
                  /\ answer.extractedData.priority = Some("High")
                  /\ answer.complete = TRUE
                  /\ requests'[r].platformSuggestions = NULL]_vars

\* C21 witness: the scenario's turn answered with the default catalog loaded,
\* complete and resolved to google-dv360.
C21_Witness ==
    \E r \in 1..Len(requests) :
        /\ ChatAnswered(r)
        /\ ScenarioTurn(calls[requests[r].call])
        /\ platforms = DefaultPlatforms
        /\ requests[r].response.success = TRUE
        /\ requests[r].response.complete = TRUE
        /\ requests[r].response.extractedData.platformId = Some("google-dv360")

\* C29: a chat request whose handler calls matchPlatform (its turn extracted
\* a platform) is answered only after platformMatcher.initialize() has
\* returned.
C29_ResolvedAfterLoading ==
    [][\A r \in 1..Len(requests') :
          (AnsweredNow(r) /\ requests'[r].call # 0
             /\ ExtractedPlatform(requests'[r], calls'[requests'[r].call].result) # NULL) =>
              matcherPc = "ready"]_vars

\* the same for the server that calls app.listen: a request reaches the
\* handlers after start() went past the await of initialize
ResolvedAfterLoadingWhenListening ==
    [][\A r \in 1..Len(requests') :
          (AnsweredNow(r) /\ requests'[r].call # 0 /\ serving # "exported"
             /\ ExtractedPlatform(requests'[r], calls'[requests'[r].call].result) # NULL) =>
              matcherPc = "ready"]_vars

\* a chat request with an extracted platform answered by the listening server
ListeningAnswered ==
    \E r \in 1..Len(requests) :
        /\ ChatAnswered(r)
        /\ serving = "listening"
        /\ calls[requests[r].call].result.success = TRUE
        /\ calls[requests[r].call].result.extractedData.platform # NULL

\* C30: a chat response that reports complete = TRUE or offers the create
\* action carries a platformId and no platformSuggestions.
C30_CompleteImpliesResolved ==
    \A r \in 1..Len(requests) :
        (/\ ChatAnswered(r)
         /\ requests[r].response.success = TRUE
         /\ \/ requests[r].response.complete = TRUE
            \/ \E i \in 1..Len(requests[r].response.actions) :
                  requests[r].response.actions[i] = "create") =>
            /\ requests[r].response.extractedData.platformId # NULL
            /\ requests[r].platformSuggestions = NULL

\* the same once the listening server has loaded the default catalog
CompleteImpliesResolvedOnDefaults ==
    [][\A r \in 1..Len(requests') :
          (/\ AnsweredNow(r) /\ requests'[r].call # 0
           /\ platforms = DefaultPlatforms
           /\ requests'[r].response.success = TRUE
           /\ requests'[r].response.complete = TRUE) =>
              /\ requests'[r].response.extractedData.platformId # NULL
              /\ requests'[r].platformSuggestions = NULL]_vars

----------------------------------------------------------------------------
(* Claims about the create-ticket requests, checked under SpecTickets *)

\* the required fields a request body lacks (absent or empty)
Lacking(data) ==
    {field \in {"account", "platform", "tagType", "priority"} :
        data[field] = NULL \/ data[field] = Some("")}

\* C18: a create-ticket request whose data lacks one of account, platform,
\* tagType, priority is answered 400 with an error whose missing list holds
\* exactly the lacking fields, once each, and no ticket is added to the store.
C18_IncompleteRejected ==
    [][\A data \in TicketData, outcome \in {"ok", "fail"}, outcome2 \in {"ok", "fail"} :
          (TicketCreate(data, outcome, outcome2) /\ Lacking(data) # {}) =>
              LET answer == requests'[Len(requests')]
              IN  /\ Len(requests') = Len(requests) + 1
                  /\ answer.kind = "ticket"
                  /\ answer.status = 400
                  /\ answer.response.success = FALSE
                  /\ {answer.response.missing[i] : i \in 1..Len(answer.response.missing)}
                       = Lacking(data)
                  /\ Len(answer.response.missing) = Cardinality(Lacking(data))
                  /\ tickets' = tickets]_vars

\* C18 witness: after a ticket was created, a request lacking two fields is
\* turned down with both listed, and the store still holds the one ticket.
C18_Witness ==
    /\ Len(tickets) = 1
    /\ Len(requests) = 2
    /\ requests[1].status = 200
    /\ requests[2].kind = "ticket"
    /\ requests[2].status = 400
    /\ requests[2].response.missing = <<"account", "platform">>

----------------------------------------------------------------------------
(* Claims about the pure functions of the matcher, checked under SpecPure *)

Called(op) == matched # NoMatch /\ matched.op = op

\* the characters of str are all in chars
OnlyChars(str, chars) == \A i \in 1..Len(str) : includes(chars, charAt(str, i))

\* C22: normalizeString applied to its own result returns it unchanged, and
\* the result holds only characters of a-z and 0-9.
C22_NormalizeIdempotent ==
    Called("normalizeString") =>
        /\ normalizeString(matched.result) = matched.result
        /\ OnlyChars(matched.result, ALNUM)

\* C22 witness: an input with a capital, a special character and a small
\* letter, normalized to something else than itself.
C22_Witness ==
    /\ Called("normalizeString")
    /\ matched.str = "A-b"
    /\ matched.result = "ab"

\* C23: levenshteinDistance gives the same distance with its arguments
\* swapped, and 0 when they are equal.
C23_LevenshteinSymmetric ==
    Called("levenshteinDistance") =>
        /\ matched.result = levenshteinDistance(matched.str2, matched.str1)
        /\ matched.str1 = matched.str2 => matched.result = 0

\* C23 witness: two strings of different lengths at distance 3.
C23_Witness ==
    /\ Called("levenshteinDistance")
    /\ matched.str1 = "ab"
    /\ matched.str2 = "bca"
    /\ matched.result = 3

\* C24: for two different normalized strings one of which lies inside the
\* other, calculateSimilarity is 0.9 in both argument orders.
C24_ContainmentScore ==
    (Called("calculateSimilarity") /\ matched.str1 # matched.str2
       /\ (includes(matched.str1, matched.str2) \/ includes(matched.str2, matched.str1))) =>
        /\ matched.result = <<9, 10>>
        /\ calculateSimilarity(matched.str2, matched.str1) = <<9, 10>>

\* C24 witness: the shorter string comes first and lies at the end of the
\* longer one.
C24_Witness ==
    /\ Called("calculateSimilarity")
    /\ matched.str1 = "bc"
    /\ matched.str2 = "abc"
    /\ matched.result = <<9, 10>>

====
